---- MODULE Spec2Model ----
(***************************************************************************)
(* Pynesweeper (src/Minesweeper.py): the board, its generation by         *)
(* rejection sampling, left/right clicks, the win and loss popups, baby    *)
(* mode and the Regenerate button, as a state machine.                     *)
(***************************************************************************)
EXTENDS Integers, FiniteSets, Sequences, TLC

\* ------------------------------------------------------------------ bounds
\* Largest width and height a launch argument or a Spinbox entry takes.
MaxDim == 3
\* Largest width * height of a requested board.
MaxArea == 4
\* Largest mine count a launch argument or the mine Spinbox takes.
MaxMines == 3

\* sys.argv[1..2], widthpicker.get(), heightpicker.get(): any integer the
\* caller types; zero included.
DimInputs == 0..MaxDim
\* sys.argv[3], minepicker.get()
MineInputs == (-1)..MaxMines

\* ------------------------------------------------------------------- state
VARIABLES
    pc,               \* "launch" | "gen" (inside GenerateBoard) | "idle" (mainloop) | "exit"
    BOARD_WIDTH,
    BOARD_HEIGHT,
    TOTAL_MINES,
    PRINT_DEBUG_INFO,
    spaces,           \* spaces[<<x,y>>] = [type, count, flag]
    pieces_left,
    babymode,
    popup,            \* the Toplevel holding the grab: "none" | "lose" | "win"
    red,              \* frames GameOver(x,y) has configured bg="red"
    win_shown,        \* GameWin() has run since the last GenerateBoard()
    gen_i,            \* loop variable i of GenerateBoard's placement loop
    draw,             \* the (x, y) last drawn by randint in GenerateBoard
    requested,        \* mine count asked for: sys.argv[3] / minepicker.get()
    event             \* the event whose handler ran last: [kind, cell]

vars == <<pc, BOARD_WIDTH, BOARD_HEIGHT, TOTAL_MINES, PRINT_DEBUG_INFO, spaces,
          pieces_left, babymode, popup, red, win_shown, gen_i, draw, requested, event>>

NoCell == <<-1, -1>>

\* The index set of the list of lists ClearBoard builds: range(w) x range(h).
Cells(w, h) == {<<x, y>> : x \in 0..(w - 1), y \in 0..(h - 1)}

ClearBoard(w, h) ==
    [c \in Cells(w, h) |-> [type |-> "HIDDEN", count |-> 0, flag |-> FALSE]]

InBounds(x, y) ==
    x >= 0 /\ x < BOARD_WIDTH /\ y >= 0 /\ y < BOARD_HEIGHT

\* The eight neighbours in the order RevealEmpty and GenerateBoard visit them.
Neighbours(x, y) ==
    << <<x - 1, y - 1>>, <<x - 1, y>>, <<x - 1, y + 1>>, <<x, y - 1>>,
       <<x, y + 1>>, <<x + 1, y - 1>>, <<x + 1, y>>, <<x + 1, y + 1>> >>

\* --------------------------------------------------------- mine placement
AddCount_SkipMines(sp, x, y) ==
    IF InBounds(x, y) /\ sp[<<x, y>>].type # "MINE"
    THEN [sp EXCEPT ![<<x, y>>].count = @ + 1] ELSE sp

AddCount(sp, x, y) ==
    IF InBounds(x, y) THEN [sp EXCEPT ![<<x, y>>].count = @ + 1] ELSE sp

RECURSIVE AddCounts(_, _, _)
AddCounts(sp, ns, k) ==
    IF k > Len(ns) THEN sp
    ELSE AddCounts(AddCount(sp, ns[k][1], ns[k][2]), ns, k + 1)

\* Lines 330-341: the space becomes a mine, each neighbour's count goes up.
PlaceMine(sp, x, y) ==
    AddCounts([sp EXCEPT ![<<x, y>>].type = "MINE"], Neighbours(x, y), 1)

\* Lines 65-68: the launch arguments' mine count, clamped to the board size.
StartupMines(w, h, m) ==
    IF m > h * w THEN h * w ELSE m

\* Lines 140-144: the mine count NewGame leaves in TOTAL_MINES.
NewGameMines(w, h, m, old, debug) ==
    IF m <= w * h THEN m
    ELSE IF debug THEN m * h
    ELSE old

\* ------------------------------------------------------------------ reveal
Revealable_Numbered(piece) ==
    piece.type = "HIDDEN" \/ (piece.type = "EMPTY" /\ piece.count > 0)

\* Line 192
Revealable(piece) == piece.type = "HIDDEN"

HasCount_AlwaysLabel(piece) == piece.count >= 0

\* Line 201: the piece gets a number label; otherwise its neighbours are revealed.
HasCount(piece) == piece.count > 0

\* Line 241
WinCondition(pl) == pl <= 0

RECURSIVE RevealEmpty(_, _, _)
RECURSIVE RevealEach(_, _, _)

Max(a, b) == IF a > b THEN a ELSE b

\* The record RevealEmpty works on: spaces, pieces_left, the GameWin() calls so
\* far, the RevealEmpty calls that are revealing a space right now (depth, and
\* the largest value it had), and the executions of line 198 (n).
RevealStart(sp, pl) ==
    [sp |-> sp, pl |-> pl, wins |-> 0, depth |-> 0, maxdepth |-> 0, n |-> 0]

RevealEmpty_KeepFlag(st, x, y) ==
    IF ~InBounds(x, y) THEN st
    ELSE IF ~Revealable(st.sp[<<x, y>>]) THEN st
    ELSE LET s1 == [st EXCEPT !.sp[<<x, y>>].type = "EMPTY",
                              !.depth = @ + 1,
                              !.maxdepth = Max(@, st.depth + 1),
                              !.n = @ + 1]
             s2 == IF HasCount(s1.sp[<<x, y>>]) THEN s1
                   ELSE RevealEach(s1, Neighbours(x, y), 1)
             s3 == [s2 EXCEPT !.pl = @ - 1, !.depth = @ - 1]
         IN  IF WinCondition(s3.pl) THEN [s3 EXCEPT !.wins = @ + 1] ELSE s3

RevealEmpty(st, x, y) ==
    IF ~InBounds(x, y) THEN st
    ELSE IF ~Revealable(st.sp[<<x, y>>]) THEN st
    ELSE LET s1 == [st EXCEPT !.sp[<<x, y>>].flag = FALSE,
                              !.sp[<<x, y>>].type = "EMPTY",
                              !.depth = @ + 1,
                              !.maxdepth = Max(@, st.depth + 1),
                              !.n = @ + 1]
             s2 == IF HasCount(s1.sp[<<x, y>>]) THEN s1
                   ELSE RevealEach(s1, Neighbours(x, y), 1)
             s3 == [s2 EXCEPT !.pl = @ - 1, !.depth = @ - 1]
         IN  IF WinCondition(s3.pl) THEN [s3 EXCEPT !.wins = @ + 1] ELSE s3

RevealEach(st, ns, k) ==
    IF k > Len(ns) THEN st
    ELSE RevealEach(RevealEmpty(st, ns[k][1], ns[k][2]), ns, k + 1)

\* ------------------------------------------------------------------- init
Init ==
    /\ pc = "launch"
    /\ BOARD_WIDTH \in DimInputs
    /\ BOARD_HEIGHT \in DimInputs
    /\ BOARD_WIDTH * BOARD_HEIGHT <= MaxArea
    /\ TOTAL_MINES \in MineInputs
    /\ PRINT_DEBUG_INFO \in BOOLEAN
    /\ requested = TOTAL_MINES
    /\ spaces = << >>
    /\ pieces_left = 0
    /\ babymode = FALSE
    /\ popup = "none"
    /\ red = {}
    /\ win_shown = FALSE
    /\ gen_i = 0
    /\ draw = NoCell
    /\ event = [kind |-> "launch", cell |-> NoCell]

\* ------------------------------------------------------- board generation
GenerateBoardReset_KeepsBabyMode(w, h, m) ==
    /\ spaces' = ClearBoard(w, h)
    /\ pieces_left' = (h * w) - m
    /\ red' = {}
    /\ win_shown' = FALSE
    /\ gen_i' = 0
    /\ draw' = NoCell
    /\ pc' = "gen"
    /\ UNCHANGED babymode

\* GenerateBoard, lines 316-319, for the board w x h with m mines.
GenerateBoardReset(w, h, m) ==
    /\ spaces' = ClearBoard(w, h)
    /\ pieces_left' = (h * w) - m
    /\ babymode' = FALSE
    /\ red' = {}
    /\ win_shown' = FALSE
    /\ gen_i' = 0
    /\ draw' = NoCell
    /\ pc' = "gen"

\* Module level, lines 65-90 and 362-363.
Startup ==
    /\ pc = "launch"
    /\ TOTAL_MINES' = StartupMines(BOARD_WIDTH, BOARD_HEIGHT, TOTAL_MINES)
    /\ GenerateBoardReset(BOARD_WIDTH, BOARD_HEIGHT, TOTAL_MINES')
    /\ UNCHANGED <<BOARD_WIDTH, BOARD_HEIGHT, PRINT_DEBUG_INFO, popup, requested, event>>

\* Lines 323-324: the first draw for mine number gen_i.
GenPick ==
    /\ pc = "gen"
    /\ gen_i < TOTAL_MINES
    /\ draw = NoCell
    /\ BOARD_HEIGHT > 0 /\ BOARD_WIDTH > 0
    /\ \E y \in 0..(BOARD_HEIGHT - 1), x \in 0..(BOARD_WIDTH - 1) : draw' = <<x, y>>
    /\ UNCHANGED <<pc, BOARD_WIDTH, BOARD_HEIGHT, TOTAL_MINES, PRINT_DEBUG_INFO, spaces,
                   pieces_left, babymode, popup, red, win_shown, gen_i, requested, event>>

\* Lines 323-324 on an empty range: randint raises ValueError. At module level
\* the program ends; inside a Tk callback the handler is abandoned.
GenRaise ==
    /\ pc = "gen"
    /\ gen_i < TOTAL_MINES
    /\ draw = NoCell
    /\ (BOARD_HEIGHT <= 0 \/ BOARD_WIDTH <= 0)
    /\ pc' = IF event.kind = "launch" THEN "exit" ELSE "idle"
    /\ UNCHANGED <<BOARD_WIDTH, BOARD_HEIGHT, TOTAL_MINES, PRINT_DEBUG_INFO, spaces,
                   pieces_left, babymode, popup, red, win_shown, gen_i, draw, requested,
                   event>>

\* Lines 326-328: the drawn space is a mine, draw again.
GenRedraw ==
    /\ pc = "gen"
    /\ draw # NoCell
    /\ spaces[draw].type = "MINE"
    /\ \E y \in 0..(BOARD_HEIGHT - 1), x \in 0..(BOARD_WIDTH - 1) : draw' = <<x, y>>
    /\ UNCHANGED <<pc, BOARD_WIDTH, BOARD_HEIGHT, TOTAL_MINES, PRINT_DEBUG_INFO, spaces,
                   pieces_left, babymode, popup, red, win_shown, gen_i, requested, event>>

\* Lines 326, 330-341: the drawn space is no mine: place the mine.
GenPlace ==
    /\ pc = "gen"
    /\ draw # NoCell
    /\ spaces[draw].type # "MINE"
    /\ spaces' = PlaceMine(spaces, draw[1], draw[2])
    /\ gen_i' = gen_i + 1
    /\ draw' = NoCell
    /\ UNCHANGED <<pc, BOARD_WIDTH, BOARD_HEIGHT, TOTAL_MINES, PRINT_DEBUG_INFO,
                   pieces_left, babymode, popup, red, win_shown, requested, event>>

\* Lines 322, 343-358: range(TOTAL_MINES) is used up, the frames are made and
\* GenerateBoard returns; the popup whose button called it is destroyed.
GenFinish ==
    /\ pc = "gen"
    /\ gen_i >= TOTAL_MINES
    /\ draw = NoCell
    /\ pc' = "idle"
    /\ popup' = "none"
    /\ UNCHANGED <<BOARD_WIDTH, BOARD_HEIGHT, TOTAL_MINES, PRINT_DEBUG_INFO, spaces,
                   pieces_left, babymode, red, win_shown, gen_i, draw, requested, event>>

\* ------------------------------------------------------------------ clicks
\* The main window takes events when the mainloop runs and no popup holds the grab.
Clickable == pc = "idle" /\ popup = "none"

ClickBranch_NoFlagCheck(piece) ==
    IF piece.type = "MINE" THEN "mine"
    ELSE IF piece.type = "HIDDEN" THEN "reveal"
    ELSE "empty"

ClickBranch_MineFirst(piece) ==
    IF piece.type = "MINE" THEN "mine"
    ELSE IF piece.flag THEN "flag"
    ELSE IF piece.type = "HIDDEN" THEN "reveal"
    ELSE "empty"

\* ClickSpace, lines 258-269: which branch a left click takes.
ClickBranch(piece) ==
    IF piece.flag THEN "flag"
    ELSE IF piece.type = "MINE" THEN "mine"
    ELSE IF piece.type = "HIDDEN" THEN "reveal"
    ELSE "empty"

GameOverCell_Swapped(x, y) == <<y, x>>

\* GameOver, line 152: the frame at row y, column x turns red.
GameOverCell(x, y) == <<x, y>>

ClickSpace(x, y) ==
    /\ Clickable
    /\ <<x, y>> \in DOMAIN spaces
    /\ event' = [kind |-> "left", cell |-> <<x, y>>]
    /\ LET branch == ClickBranch(spaces[<<x, y>>])
           r == RevealEmpty(RevealStart(spaces, pieces_left), x, y)
       IN  CASE branch = "mine" ->
                  /\ red' = red \cup {GameOverCell(x, y)}
                  /\ popup' = "lose"
                  /\ UNCHANGED <<spaces, pieces_left, win_shown>>
             [] branch = "reveal" ->
                  /\ spaces' = r.sp
                  /\ pieces_left' = r.pl
                  /\ popup' = IF r.wins > 0 THEN "win" ELSE popup
                  /\ win_shown' = (win_shown \/ r.wins > 0)
                  /\ UNCHANGED red
             [] OTHER ->
                  UNCHANGED <<spaces, pieces_left, popup, red, win_shown>>
    /\ UNCHANGED <<pc, BOARD_WIDTH, BOARD_HEIGHT, TOTAL_MINES, PRINT_DEBUG_INFO,
                   babymode, gen_i, draw, requested>>

ToggleFlag_Any(piece) == [piece EXCEPT !.flag = ~@]

ToggleFlag_SetOnly(piece) ==
    IF piece.type = "MINE" \/ piece.type = "HIDDEN"
    THEN [piece EXCEPT !.flag = TRUE]
    ELSE piece

\* RightClickSpace, lines 285-298: the piece after a right click.
ToggleFlag(piece) ==
    IF piece.type = "MINE" \/ piece.type = "HIDDEN"
    THEN [piece EXCEPT !.flag = ~@]
    ELSE piece

\* RightClickSpace, lines 281-298: the board after a right click on c.
RightClicked(sp, c) == [sp EXCEPT ![c] = ToggleFlag(@)]

RightClickSpace(x, y) ==
    /\ Clickable
    /\ <<x, y>> \in DOMAIN spaces
    /\ event' = [kind |-> "right", cell |-> <<x, y>>]
    /\ spaces' = RightClicked(spaces, <<x, y>>)
    /\ UNCHANGED <<pc, BOARD_WIDTH, BOARD_HEIGHT, TOTAL_MINES, PRINT_DEBUG_INFO,
                   pieces_left, babymode, popup, red, win_shown, gen_i, draw, requested>>

\* ------------------------------------------------------------ menu, popups
\* NewGame, lines 130-147, with w, h, m typed into the three Spinboxes.
NewGame(w, h, m) ==
    /\ Clickable
    /\ event' = [kind |-> "regenerate", cell |-> NoCell]
    /\ requested' = m
    /\ BOARD_WIDTH' = w
    /\ BOARD_HEIGHT' = h
    /\ TOTAL_MINES' = NewGameMines(w, h, m, TOTAL_MINES, PRINT_DEBUG_INFO)
    /\ GenerateBoardReset(w, h, TOTAL_MINES')
    /\ UNCHANGED <<PRINT_DEBUG_INFO, popup>>

\* A popup button that calls GenerateBoard() and then top.destroy().
PopupGenerate(kind) ==
    /\ event' = [kind |-> kind, cell |-> NoCell]
    /\ GenerateBoardReset(BOARD_WIDTH, BOARD_HEIGHT, TOTAL_MINES)
    /\ UNCHANGED <<BOARD_WIDTH, BOARD_HEIGHT, TOTAL_MINES, PRINT_DEBUG_INFO, popup,
                   requested>>

\* sys.exit() from a popup button.
PopupExit(kind) ==
    /\ event' = [kind |-> kind, cell |-> NoCell]
    /\ pc' = "exit"
    /\ UNCHANGED <<BOARD_WIDTH, BOARD_HEIGHT, TOTAL_MINES, PRINT_DEBUG_INFO, spaces,
                   pieces_left, babymode, popup, red, win_shown, gen_i, draw, requested>>

\* GameOver, line 157
Retry == pc = "idle" /\ popup = "lose" /\ PopupGenerate("retry")

\* GameOver, line 159
GiveUp == pc = "idle" /\ popup = "lose" /\ PopupExit("give_up")

BabyMode_Forgets ==
    /\ pc = "idle" /\ popup = "lose"
    /\ event' = [kind |-> "baby_mode", cell |-> NoCell]
    /\ popup' = "none"
    /\ UNCHANGED <<pc, BOARD_WIDTH, BOARD_HEIGHT, TOTAL_MINES, PRINT_DEBUG_INFO, spaces,
                   pieces_left, babymode, red, win_shown, gen_i, draw, requested>>

\* GameOver, line 161, and SetBabyMode
BabyMode ==
    /\ pc = "idle" /\ popup = "lose"
    /\ event' = [kind |-> "baby_mode", cell |-> NoCell]
    /\ babymode' = TRUE
    /\ popup' = "none"
    /\ UNCHANGED <<pc, BOARD_WIDTH, BOARD_HEIGHT, TOTAL_MINES, PRINT_DEBUG_INFO, spaces,
                   pieces_left, red, win_shown, gen_i, draw, requested>>

\* GameOver, line 164: the loss popup closed through the window manager.
CloseLose == pc = "idle" /\ popup = "lose" /\ PopupGenerate("close_lose")

\* GameWin, line 175
WinNewGame == pc = "idle" /\ popup = "win" /\ PopupGenerate("new_game")

\* GameWin, line 177
WinQuit == pc = "idle" /\ popup = "win" /\ PopupExit("quit")

\* GameWin sets no WM_DELETE_WINDOW protocol: closing the win popup through the
\* window manager destroys it and nothing else.
CloseWin ==
    /\ pc = "idle" /\ popup = "win"
    /\ event' = [kind |-> "close_win", cell |-> NoCell]
    /\ popup' = "none"
    /\ UNCHANGED <<pc, BOARD_WIDTH, BOARD_HEIGHT, TOTAL_MINES, PRINT_DEBUG_INFO, spaces,
                   pieces_left, babymode, red, win_shown, gen_i, draw, requested>>

LeftClick == \E c \in DOMAIN spaces : ClickSpace(c[1], c[2])

RightClick == \E c \in DOMAIN spaces : RightClickSpace(c[1], c[2])

Regenerate ==
    \E w \in DimInputs, h \in DimInputs, m \in MineInputs :
        w * h <= MaxArea /\ NewGame(w, h, m)

Next ==
    \/ Startup
    \/ GenPick
    \/ GenRaise
    \/ GenRedraw
    \/ GenPlace
    \/ GenFinish
    \/ LeftClick
    \/ RightClick
    \/ Regenerate
    \/ Retry
    \/ GiveUp
    \/ BabyMode
    \/ CloseLose
    \/ WinNewGame
    \/ WinQuit
    \/ CloseWin

Spec == Init /\ [][Next]_vars

\* The fairness of the program's scheduling: GenerateBoard, once called, runs
\* on, and randint does not avoid the spaces that are free for ever.
FairSpec ==
    /\ Spec
    /\ WF_vars(GenPick \/ GenRaise \/ GenRedraw \/ GenPlace \/ GenFinish)
    /\ SF_vars(GenRedraw /\ spaces[draw'].type # "MINE")

\* ------------------------------------------------------------- vocabulary
Abs(n) == IF n < 0 THEN 0 - n ELSE n

\* The spaces that are no mine and not yet revealed.
HiddenSafe == {c \in DOMAIN spaces : spaces[c].type = "HIDDEN"}

Mines == {c \in DOMAIN spaces : spaces[c].type = "MINE"}

Revealed == {c \in DOMAIN spaces : spaces[c].type = "EMPTY"}

Flagged == {c \in DOMAIN spaces : spaces[c].flag}

\* The in-bounds Moore neighbours of c.
Moore(c) ==
    {d \in DOMAIN spaces :
        d # c /\ Abs(d[1] - c[1]) <= 1 /\ Abs(d[2] - c[2]) <= 1}

\* The step is the handler of a left / right click on space c.
IsLeftClick(c) == Clickable /\ event' = [kind |-> "left", cell |-> c]

IsRightClick(c) == Clickable /\ event' = [kind |-> "right", cell |-> c]

\* The step calls GameOver / GameWin.
LossReported == popup' = "lose" /\ popup # "lose"

WinReported == win_shown' /\ ~win_shown

\* A loss has been reported on the current board.
LossShown == red # {}

\* The launch arguments or Spinbox entries describe a board the data model allows.
ValidBoard == BOARD_WIDTH > 0 /\ BOARD_HEIGHT > 0 /\ TOTAL_MINES >= 0

\* ------------------------------------------------------------------ claims
\* C1: on every board a win has been reported if and only if all non-mine
\* spaces are revealed (stated for boards with at least one space and a mine
\* count that is not negative).
C1_WinIffAllSafeRevealed ==
    (pc = "idle" /\ ValidBoard) => (win_shown <=> HiddenSafe = {})

\* C2: after every completed operation pieces_left is the number of non-mine
\* spaces not yet revealed (stated for boards with at least one space).
C2_PiecesLeftCountsHiddenSafe ==
    (pc = "idle" /\ BOARD_WIDTH > 0 /\ BOARD_HEIGHT > 0)
        => pieces_left = Cardinality(HiddenSafe)

\* C3: once a win or a loss has been reported and baby mode was not chosen, no
\* later step on that board changes a space or pieces_left.
C3_TerminalRejectsClicks ==
    [][(pc = "idle" /\ (win_shown \/ LossShown) /\ ~babymode /\ pc' # "gen")
          => UNCHANGED <<spaces, pieces_left>>]_vars

\* C4: after a win no loss is reported on that board, and after a loss no win
\* is reported on it unless baby mode was chosen.
C4_TerminalOneWay ==
    [][/\ win_shown => ~LossReported
       /\ (LossShown /\ ~babymode) => ~WinReported]_vars

\* C5 as claimed: a flag leaves a space only by a right click on that space or
\* by the generation of a new board; no reveal, direct or cascaded, removes it
\* (stated for boards the data model allows).
C5_FlagOnlyRemovedByToggle ==
    [][\A c \in Flagged :
          (ValidBoard /\ pc' # "gen") => (spaces'[c].flag \/ IsRightClick(c))]_vars

\* C5 as amended: a left click on a flagged space changes no space, and a flag
\* leaves a space only by a right click on that space, by the generation of a
\* new board, or by the cascade of a left click on another space, which
\* reveals the flagged non-mine space.
C5_FlagRemovedByToggleOrCascade ==
    [][\A c \in Flagged :
          /\ IsLeftClick(c) => spaces' = spaces
          /\ pc' # "gen" =>
                \/ spaces'[c].flag
                \/ IsRightClick(c)
                \/ /\ \E d \in DOMAIN spaces \ {c} :
                          IsLeftClick(d) /\ spaces[d].count = 0 /\ d \in HiddenSafe
                   /\ c \in HiddenSafe
                   /\ spaces'[c].type = "EMPTY"]_vars

\* A left click on a zero-count space has revealed its region while a flagged
\* space outside the region kept its flag.
C5_Witness ==
    /\ Clickable
    /\ event.kind = "left"
    /\ event.cell \in Revealed
    /\ spaces[event.cell].count = 0
    /\ Flagged # {}

\* C6: a left click on a flagged space, mine or not, reveals nothing, keeps
\* every flag and pieces_left, and reports neither a loss nor a win.
C6_LeftClickOnFlagIsNoOp ==
    [][\A c \in Flagged :
          IsLeftClick(c) =>
              UNCHANGED <<spaces, pieces_left, popup, red, win_shown, babymode>>]_vars

\* The last event was a left click on a flagged mine and no popup opened; a
\* flagged space that is no mine is still hidden as well.
C6_Witness ==
    /\ Clickable
    /\ event.kind = "left"
    /\ event.cell \in Flagged \cap Mines
    /\ HiddenSafe \cap Flagged # {}

\* C7: after every reveal each revealed zero-count space has all its Moore
\* neighbours revealed, a left click on a space with a count above zero reveals
\* that space only, and no mine is ever revealed.
C7_CascadeRegion ==
    [][/\ pc' = "idle" =>
              \A c \in DOMAIN spaces' :
                  (spaces'[c].type = "EMPTY" /\ spaces'[c].count = 0) =>
                      \A d \in DOMAIN spaces' :
                          (d # c /\ Abs(d[1] - c[1]) <= 1 /\ Abs(d[2] - c[2]) <= 1)
                              => spaces'[d].type = "EMPTY"
       /\ \A c \in HiddenSafe :
              (IsLeftClick(c) /\ spaces[c].count > 0 /\ ~spaces[c].flag) =>
                  spaces' = [spaces EXCEPT ![c].type = "EMPTY"]
       /\ \A c \in Mines : pc' # "gen" => spaces'[c].type = "MINE"]_vars

\* A left click on a zero-count space has revealed a neighbour with a count
\* above zero, and a mine is still on the board.
C7_Witness ==
    /\ Clickable
    /\ event.kind = "left"
    /\ event.cell \in Revealed
    /\ spaces[event.cell].count = 0
    /\ \E d \in Moore(event.cell) : d \in Revealed /\ spaces[d].count > 0
    /\ Mines # {}

\* C8: a left click on an unflagged mine reports a loss for exactly that space
\* and changes no space and not pieces_left; no other step reports a loss.
C8_LossOnlyByMineClick ==
    [][/\ \A c \in Mines \ Flagged :
              IsLeftClick(c) =>
                  /\ popup' = "lose"
                  /\ red' = red \cup {c}
                  /\ UNCHANGED <<spaces, pieces_left, win_shown>>
       /\ (LossReported \/ red' \ red # {}) =>
              \E c \in Mines \ Flagged : IsLeftClick(c) /\ red' \ red \subseteq {c}]_vars

\* The loss popup is open for the unflagged mine that was left-clicked, on a
\* board wider than high, next to a flagged mine.
C8_Witness ==
    /\ pc = "idle"
    /\ popup = "lose"
    /\ event.kind = "left"
    /\ event.cell \in Mines \ Flagged
    /\ event.cell \in red
    /\ event.cell[1] # event.cell[2]
    /\ Mines \cap Flagged # {}

\* C9: a mine count above width * height leaves exactly width * height in
\* TOTAL_MINES, at launch and in NewGame (stated for boards with a space).
C9_MinesClampedToArea ==
    (pc \in {"gen", "idle"} /\ BOARD_WIDTH > 0 /\ BOARD_HEIGHT > 0
        /\ requested > BOARD_WIDTH * BOARD_HEIGHT)
        => TOTAL_MINES = BOARD_WIDTH * BOARD_HEIGHT

\* C10: every board generation comes to its end.
C10_PlacementTerminates == (pc = "gen") ~> (pc # "gen")

\* C10: GenerateBoard only runs with TOTAL_MINES <= BOARD_WIDTH * BOARD_HEIGHT
\* (stated for boards with a space).
C10_MinesFitWhenGenerating ==
    (pc = "gen" /\ BOARD_WIDTH > 0 /\ BOARD_HEIGHT > 0)
        => TOTAL_MINES <= BOARD_WIDTH * BOARD_HEIGHT

\* C11: every generated board has exactly TOTAL_MINES mines (stated for boards
\* with at least one space).
C11_ExactlyTotalMines ==
    (pc = "idle" /\ BOARD_WIDTH > 0 /\ BOARD_HEIGHT > 0)
        => Cardinality(Mines) = TOTAL_MINES

\* C12: on every generated board the count of every space, mine or not, is the
\* number of mines among its in-bounds Moore neighbours.
C12_CountIsAdjacentMines ==
    pc = "idle" =>
        \A c \in DOMAIN spaces : spaces[c].count = Cardinality(Moore(c) \cap Mines)

\* A generated board on which a mine has a mine for a neighbour and a space
\* that is no mine has two.
C12_Witness ==
    /\ pc = "idle"
    /\ \E c \in Mines : spaces[c].count >= 1
    /\ \E c \in HiddenSafe : spaces[c].count = 2

\* C13: no space is both flagged and revealed.
C13_NeverFlaggedAndRevealed == Revealed \cap Flagged = {}

\* The last event was a right click on a revealed space, next to a flagged one.
C13_Witness ==
    /\ Clickable
    /\ event.kind = "right"
    /\ event.cell \in Revealed
    /\ Moore(event.cell) \cap Flagged # {}

\* C14: a right click on a revealed space changes nothing; a right click on any
\* space changes at most the flag of that space, reveals nothing, reports no
\* loss and no win, and keeps pieces_left, the mines and the counts.
C14_RightClickFrame ==
    [][\A c \in DOMAIN spaces :
          IsRightClick(c) =>
              /\ c \in Revealed => spaces' = spaces
              /\ \A d \in DOMAIN spaces :
                    /\ spaces'[d].type = spaces[d].type
                    /\ spaces'[d].count = spaces[d].count
                    /\ d # c => spaces'[d].flag = spaces[d].flag
              /\ UNCHANGED <<pieces_left, popup, red, win_shown, babymode, pc,
                             BOARD_WIDTH, BOARD_HEIGHT, TOTAL_MINES>>]_vars

\* The last event was a right click that flagged a mine, beside a revealed space.
C14_Witness ==
    /\ Clickable
    /\ event.kind = "right"
    /\ event.cell \in Mines \cap Flagged
    /\ Revealed # {}

\* C15: a right click on a space that is not revealed, mine or not, changes
\* the board, and a second right click on the same space gives back the board
\* the first one started from; pieces_left is the same throughout.
C15_ToggleTwiceRestores ==
    [][\A c \in DOMAIN spaces \ Revealed :
          IsRightClick(c) =>
              /\ spaces' # spaces
              /\ RightClicked(spaces', c) = spaces
              /\ pieces_left' = pieces_left]_vars

\* The last event was the right click that took the only flag off a mine
\* again: the board is the one generation left.
C15_Witness ==
    /\ Clickable
    /\ event.kind = "right"
    /\ event.cell \in Mines
    /\ Flagged = {}
    /\ Revealed = {}
    /\ HiddenSafe # {}

\* C16: no board with a width or height of zero or less, or with a negative
\* mine count (and so pieces_left above width * height), becomes the current
\* board.
C16_NoInvalidBoard ==
    pc = "idle" =>
        (ValidBoard /\ pieces_left <= BOARD_WIDTH * BOARD_HEIGHT)

\* C17: during one reveal no RevealEmpty invocation is nested inside another:
\* the number of invocations active at once is at most 1.
C17_RevealNotNested ==
    [][\A c \in DOMAIN spaces :
          (ValidBoard /\ IsLeftClick(c) /\ ~spaces[c].flag /\ spaces[c].type = "HIDDEN") =>
              RevealEmpty(RevealStart(spaces, pieces_left), c[1], c[2]).maxdepth <= 1]_vars

\* C18: every reveal returns (no invocation is left active), turns each space
\* it processes from hidden to revealed exactly once, so that the number of
\* spaces processed is the number of spaces newly revealed and at most
\* BOARD_WIDTH * BOARD_HEIGHT, and takes one off pieces_left for each.
C18_RevealVisitsEachSpaceOnce ==
    [][\A c \in DOMAIN spaces :
          (IsLeftClick(c) /\ ~spaces[c].flag /\ spaces[c].type = "HIDDEN") =>
              LET r == RevealEmpty(RevealStart(spaces, pieces_left), c[1], c[2])
              IN  /\ r.depth = 0
                  /\ Revealed \subseteq Revealed'
                  /\ c \in Revealed'
                  /\ r.n = Cardinality(Revealed' \ Revealed)
                  /\ r.n <= BOARD_WIDTH * BOARD_HEIGHT
                  /\ pieces_left' = pieces_left - r.n]_vars

\* The last left click revealed a region of three spaces or more from a space
\* without a count: spaces of the region are reached from several neighbours.
C18_Witness ==
    /\ Clickable
    /\ event.kind = "left"
    /\ event.cell \in Revealed
    /\ spaces[event.cell].count = 0
    /\ Cardinality(Revealed) >= 3
    /\ \E d \in Revealed : Cardinality(Moore(d) \cap Revealed) >= 2

\* C19: every call of GenerateBoard, whatever the state it is made in, leaves a
\* board with no revealed and no flagged space, pieces_left = BOARD_WIDTH *
\* BOARD_HEIGHT - TOTAL_MINES and baby mode off; it starts from a cleared
\* board, so the mines are those this generation has placed.
C19_GenerationReplacesBoard ==
    [][(pc' = "gen" \/ (pc = "gen" /\ pc' = "idle")) =>
          /\ pc # "gen" => spaces' = ClearBoard(BOARD_WIDTH', BOARD_HEIGHT')
          /\ Revealed' = {}
          /\ Flagged' = {}
          /\ pieces_left' = BOARD_WIDTH' * BOARD_HEIGHT' - TOTAL_MINES'
          /\ ~babymode'
          /\ Cardinality(Mines') <= gen_i']_vars

\* A board generated by closing the loss popup, with a mine on it.
C19_Witness ==
    /\ pc = "idle"
    /\ event.kind = "close_lose"
    /\ Mines # {}
    /\ HiddenSafe # {}

\* C20: the Baby Mode button changes nothing of the board: spaces, pieces_left
\* and the red frames stay, baby mode is on and the popup is gone. Baby mode
\* stays on in every step that does not call GenerateBoard. In baby mode a left
\* click on an unflagged mine reports a loss, a left click on an unflagged
\* hidden space reveals it and reports a win exactly if pieces_left is used
\* up, and a right click on a space that is not revealed toggles its flag.
C20_BabyModeContinues ==
    [][/\ (popup = "lose" /\ event'.kind = "baby_mode") =>
              /\ babymode'
              /\ popup' = "none"
              /\ UNCHANGED <<spaces, pieces_left, red, win_shown, pc,
                             BOARD_WIDTH, BOARD_HEIGHT, TOTAL_MINES>>
       /\ (babymode /\ pc' # "gen") => babymode'
       /\ babymode =>
              \A c \in DOMAIN spaces :
                  /\ (IsLeftClick(c) /\ ~spaces[c].flag /\ spaces[c].type = "MINE") =>
                        /\ popup' = "lose"
                        /\ c \in red'
                        /\ UNCHANGED <<spaces, pieces_left>>
                  /\ (IsLeftClick(c) /\ ~spaces[c].flag /\ spaces[c].type = "HIDDEN") =>
                        /\ c \in Revealed'
                        /\ pieces_left' < pieces_left
                        /\ (popup' = "win") = (pieces_left' <= 0)
                  /\ (IsRightClick(c) /\ c \notin Revealed) =>
                        spaces' = [spaces EXCEPT ![c].flag = ~@]]_vars

\* In baby mode, after a loss, the last left click has won the game.
C20_Witness ==
    /\ babymode
    /\ red # {}
    /\ event.kind = "left"
    /\ popup = "win"

====
